---- MODULE Spec2Model ----
(***************************************************************************)
(* Conway's Game of Life engine of RustLife (src/src/main.rs):             *)
(* ConwayState (grid, neighbour count, rule, chunked next_state,           *)
(* swap_state), the simulation thread's loop over an RwLock-guarded grid   *)
(* and an atomic frame counter, and the event loop's redraw handler.       *)
(*                                                                         *)
(* A grid's cells are a sequence of length width*height; the code's        *)
(* 0-based linear index id is position id+1 of the sequence.               *)
(***************************************************************************)
EXTENDS Integers, Sequences, FiniteSets, TLC

VARIABLES
    width,            \* ConwayState.width  (life and scratch are built alike)
    height,           \* ConwayState.height
    rows_in_chunk,    \* next_state's rows_in_chunk
    cells,            \* life.cells, the current grid guarded by the RwLock
    scratch,          \* scratch.cells, owned by the simulation thread
    sim_pc,           \* position of the simulation thread in its loop
    chunk_rows_done,  \* per chunk closure, rows of its slice already written
    writes,           \* per scratch index, writes made by the step in progress
    read_holders,     \* threads holding a read guard of the RwLock
    write_holders,    \* threads holding the write guard of the RwLock
    frames,           \* the AtomicI32 frame counter
    consumer_pc,      \* position of the event loop in the redraw handler
    pixel,            \* draw: index of the next screen pixel
    view,             \* draw: the cell read for each pixel drawn so far
    loaded,           \* the value of the latest frames.load
    gen0,             \* history: the grid life was constructed with
    generation,       \* history: number of swap_state calls completed
    increments,       \* history: number of fetch_add calls completed
    reported          \* history: sum of the values loaded for the FPS reports

vars == <<width, height, rows_in_chunk, cells, scratch, sim_pc, chunk_rows_done,
          writes, read_holders, write_holders, frames, consumer_pc, pixel, view,
          loaded, gen0, generation, increments, reported>>

(***************************************************************************)
(* Bounds of the model.  The program's grid is 2048 x 2048 drawn on a      *)
(* 1024 x 1024 screen; the model keeps the names and scales them down.     *)
(***************************************************************************)
GAME_WIDTH == 3
GAME_HEIGHT == 3
WIDTH == 2
HEIGHT == 2
\* steps the simulation thread takes beside the event loop
MaxFrames == 3
\* steps taken when next_state and swap_state are driven alone
MaxGenerations == 4

\* const rows_in_chunk of next_state
ROWS_IN_CHUNK == 2

CellState == {"Dead", "Alive"}

(***************************************************************************)
(* ConwayState                                                             *)
(***************************************************************************)

\* mutant: the vector is sized by the width alone
ConwayState_new_square(w, h) == [1..(w * w) -> CellState]

\* every value ConwayState::new(w, h) can return: w*h cells, each one
\* Dead or Alive by rand::random; no check of w or h
ConwayState_new(w, h) == [1..(w * h) -> CellState]

\* (row, column) offsets
NEIGHBORS == << <<-1, -1>>, <<-1, 0>>, <<-1, 1>>, <<0, -1>>,
                <<0, 1>>, <<1, -1>>, <<1, 0>>, <<1, 1>> >>

\* self.cells[linear_id]: Rust panics on an index out of range
CellAt(c, linear_id) ==
    IF linear_id >= 0 /\ linear_id < Len(c) THEN c[linear_id + 1] ELSE "Panic"

\* mutant: the test of the right edge is missing
neighbor_in_bounds_no_right_edge(w, h, x, y, k) ==
    LET j == NEIGHBORS[k][1]
        i == NEIGHBORS[k][2]
    IN  y + j >= 0 /\ x + i >= 0 /\ y + j < h

\* the condition under which count_alive_neighbors indexes neighbour k
neighbor_in_bounds(w, h, x, y, k) ==
    LET j == NEIGHBORS[k][1]
        i == NEIGHBORS[k][2]
    IN  y + j >= 0 /\ x + i >= 0 /\ y + j < h /\ x + i < w

\* the (row, column) positions count_alive_neighbors indexes for (x, y)
neighbor_reads(w, h, x, y) ==
    { <<y + NEIGHBORS[k][1], x + NEIGHBORS[k][2]>> :
        k \in {n \in 1..8 : neighbor_in_bounds(w, h, x, y, n)} }

\* mutant: a position outside the grid counts as Alive
count_alive_neighbors_alive_border(c, w, h, x, y) ==
    Cardinality({k \in 1..8 :
        \/ ~neighbor_in_bounds(w, h, x, y, k)
        \/ CellAt(c, (y + NEIGHBORS[k][1]) * w + (x + NEIGHBORS[k][2])) = "Alive"})

\* one count per offset whose position is inside the grid and Alive
count_alive_neighbors(c, w, h, x, y) ==
    Cardinality({k \in 1..8 :
        /\ neighbor_in_bounds(w, h, x, y, k)
        /\ CellAt(c, (y + NEIGHBORS[k][1]) * w + (x + NEIGHBORS[k][2])) = "Alive"})

\* mutant: an Alive cell survives with 3 neighbours only
rule_survive_on_3_only(cell_state, live_count) ==
    IF cell_state = "Dead" /\ live_count = 3 THEN "Alive"
    ELSE IF cell_state = "Alive" /\ live_count = 3 THEN "Alive"
    ELSE "Dead"

\* the match of next_cell_state
rule(cell_state, live_count) ==
    IF cell_state = "Dead" /\ live_count = 3 THEN "Alive"
    ELSE IF cell_state = "Alive" /\ live_count \in {2, 3} THEN "Alive"
    ELSE "Dead"

next_cell_state(c, w, h, x, y) ==
    LET cell_state == CellAt(c, y * w + x)
        live_count == count_alive_neighbors(c, w, h, x, y)
    IN  IF cell_state = "Panic" THEN "Panic" ELSE rule(cell_state, live_count)

(***************************************************************************)
(* next_state: the locals and the chunk closures                           *)
(***************************************************************************)
elements_in_chunk == rows_in_chunk * width

\* self.cells.len() / elements_in_chunk; the caller has excluded a zero divisor
num_chunks == Len(cells) \div elements_in_chunk

\* mutant: the rows left over after the whole chunks are dropped
rows_in_last_chunk_none == 0 * width

rows_in_last_chunk == (Len(cells) - num_chunks * elements_in_chunk) \div width

\* par_chunks_mut(elements_in_chunk): the number of slices of scratch.cells
num_slices == (Len(scratch) + elements_in_chunk - 1) \div elements_in_chunk

\* the slice handed to closure number chunk starts here in scratch.cells
slice_start(chunk) == chunk * elements_in_chunk

\* and holds this many cells (the last slice may be shorter)
slice_len(chunk) ==
    IF slice_start(chunk) + elements_in_chunk <= Len(scratch)
    THEN elements_in_chunk
    ELSE Len(scratch) - slice_start(chunk)

\* mutant: the row offset is written with the literal 2
chunk_first_row_literal(chunk) == chunk * 2

\* let row = chunk * rows_in_chunk
chunk_first_row(chunk) == chunk * rows_in_chunk

\* the bound of the closure's loop over j
chunk_rows(chunk) ==
    IF chunk < num_chunks THEN rows_in_chunk ELSE rows_in_last_chunk

\* mutant: the neighbourhood is read from the grid being written
written_value_from_scratch(i, y) == next_cell_state(scratch, width, height, i, y)

\* self.next_cell_state(i, j + row)
written_value(i, y) == next_cell_state(cells, width, height, i, y)

\* row j of closure chunk panics when an index leaves the slice or the grid
row_panics(chunk, j) ==
    \E i \in 0..(width - 1) :
        \/ j * width + i >= slice_len(chunk)
        \/ written_value(i, j + chunk_first_row(chunk)) = "Panic"

\* mutant: only the Alive results are stored, as if scratch had been cleared
row_written_alive_only(chunk, j) ==
    [id \in 1..Len(scratch) |->
        LET k == (id - 1) - slice_start(chunk) - j * width
        IN  IF /\ k >= 0 /\ k < width
               /\ (id - 1) - slice_start(chunk) < slice_len(chunk)
               /\ written_value(k, j + chunk_first_row(chunk)) = "Alive"
            THEN "Alive"
            ELSE scratch[id]]

\* scratch.cells after row j of closure chunk: cells[j*width + i] of the slice
row_written(chunk, j) ==
    [id \in 1..Len(scratch) |->
        LET k == (id - 1) - slice_start(chunk) - j * width
        IN  IF k >= 0 /\ k < width /\ (id - 1) - slice_start(chunk) < slice_len(chunk)
            THEN written_value(k, j + chunk_first_row(chunk))
            ELSE scratch[id]]

row_counted(chunk, j) ==
    [id \in 1..Len(scratch) |->
        LET k == (id - 1) - slice_start(chunk) - j * width
        IN  IF k >= 0 /\ k < width /\ (id - 1) - slice_start(chunk) < slice_len(chunk)
            THEN writes[id] + 1
            ELSE writes[id]]

\* AtomicI32::fetch_add(1) wraps at i32::MAX
\* mutant: the counter is advanced by 2
fetch_add_2(v) == IF v >= 2147483646 THEN ((v - 2147483647) - 2147483647) - 2 ELSE v + 2

fetch_add_1(v) == IF v = 2147483647 THEN (0 - 2147483647) - 1 ELSE v + 1

(***************************************************************************)
(* std::sync::RwLock: any number of read guards or one write guard.  The   *)
(* order in which waiting threads are served is left open by the library.  *)
(***************************************************************************)
\* mutant: the write guard is granted while read guards are out
write_lock_free_ignoring_readers == write_holders = {}

\* write() returns once no guard of either kind is held
write_lock_free == read_holders = {} /\ write_holders = {}

\* mutant: a read guard is granted while the write guard is out
read_lock_free_ignoring_writer == TRUE

\* read() returns once no write guard is held
read_lock_free == write_holders = {}

\* the event loop returned with ControlFlow::Exit: the process is gone
process_exited == consumer_pc = "exit"

(***************************************************************************)
(* The simulation thread: loop { read, next_state, write, swap_state,      *)
(* fetch_add }.  The RwLock is never poisoned (no panic happens under the  *)
(* write guard), so both `if let Ok` take their branch.                    *)
(***************************************************************************)
\* a panic unwinds the thread: its read guard is dropped, the thread ends
SimPanic ==
    /\ sim_pc' = "panicked"
    /\ read_holders' = read_holders \ {"sim"}
    /\ UNCHANGED <<width, height, rows_in_chunk, cells, scratch, chunk_rows_done,
                   writes, write_holders, frames, consumer_pc, pixel, view,
                   loaded, gen0, generation, increments, reported>>

\* c_life.read()
SimRead ==
    /\ sim_pc = "read"
    /\ ~process_exited
    /\ read_lock_free
    /\ read_holders' = read_holders \cup {"sim"}
    /\ sim_pc' = "next_state"
    /\ UNCHANGED <<width, height, rows_in_chunk, cells, scratch, chunk_rows_done,
                   writes, write_holders, frames, consumer_pc, pixel, view,
                   loaded, gen0, generation, increments, reported>>

\* next_state up to par_chunks_mut: the locals are computed (a division by
\* elements_in_chunk = 0 panics) and one closure per slice is handed to rayon
NextStateBegin ==
    /\ sim_pc = "next_state"
    /\ ~process_exited
    /\ IF elements_in_chunk = 0
       THEN SimPanic
       ELSE /\ chunk_rows_done' = [c \in 1..num_slices |-> 0]
            /\ writes' = [id \in 1..Len(scratch) |-> 0]
            /\ sim_pc' = "chunks"
            /\ UNCHANGED <<width, height, rows_in_chunk, cells, scratch,
                           read_holders, write_holders, frames, consumer_pc,
                           pixel, view, loaded, gen0, generation, increments,
                           reported>>

\* one pass of the loop over j in the closure of slice number chunk
ChunkRow(chunk) ==
    /\ sim_pc = "chunks"
    /\ ~process_exited
    /\ chunk_rows_done[chunk + 1] < chunk_rows(chunk)
    /\ LET j == chunk_rows_done[chunk + 1]
       IN  IF row_panics(chunk, j)
           THEN SimPanic
           ELSE /\ scratch' = row_written(chunk, j)
                /\ writes' = row_counted(chunk, j)
                /\ chunk_rows_done' = [chunk_rows_done EXCEPT ![chunk + 1] = j + 1]
                /\ UNCHANGED <<width, height, rows_in_chunk, cells, sim_pc,
                               read_holders, write_holders, frames, consumer_pc,
                               pixel, view, loaded, gen0, generation, increments,
                               reported>>

\* mutant: count() does not wait for the closures
chunks_finished_unawaited == TRUE

\* every closure has returned
chunks_finished ==
    \A c \in 1..Len(chunk_rows_done) : chunk_rows_done[c] = chunk_rows(c - 1)

\* mutant: the read guard outlives the block and is still held at write()
SimReleaseRead_keeps_guard ==
    /\ sim_pc = "chunks"
    /\ ~process_exited
    /\ chunks_finished
    /\ chunk_rows_done' = <<>>
    /\ sim_pc' = "write"
    /\ UNCHANGED <<width, height, rows_in_chunk, cells, scratch, writes,
                   read_holders, write_holders, frames, consumer_pc, pixel, view,
                   loaded, gen0, generation, increments, reported>>

\* count() returns once every closure has; the read guard l is dropped
SimReleaseRead ==
    /\ sim_pc = "chunks"
    /\ ~process_exited
    /\ chunks_finished
    /\ read_holders' = read_holders \ {"sim"}
    /\ chunk_rows_done' = <<>>
    /\ sim_pc' = "write"
    /\ UNCHANGED <<width, height, rows_in_chunk, cells, scratch, writes,
                   write_holders, frames, consumer_pc, pixel, view, loaded, gen0,
                   generation, increments, reported>>

\* c_life.write()
SimWrite ==
    /\ sim_pc = "write"
    /\ ~process_exited
    /\ write_lock_free
    /\ write_holders' = write_holders \cup {"sim"}
    /\ sim_pc' = "swap"
    /\ UNCHANGED <<width, height, rows_in_chunk, cells, scratch, chunk_rows_done,
                   writes, read_holders, frames, consumer_pc, pixel, view, loaded,
                   gen0, generation, increments, reported>>

\* mutant: swap_state exchanges nothing
SimSwap_no_exchange ==
    /\ sim_pc = "swap"
    /\ ~process_exited
    /\ generation' = generation + 1
    /\ sim_pc' = "unlock"
    /\ UNCHANGED <<width, height, rows_in_chunk, cells, scratch, chunk_rows_done,
                   writes, read_holders, write_holders, frames, consumer_pc, pixel,
                   view, loaded, gen0, increments, reported>>

\* mutant: swap_state copies scratch into current and keeps scratch
SimSwap_copy ==
    /\ sim_pc = "swap"
    /\ ~process_exited
    /\ cells' = scratch
    /\ generation' = generation + 1
    /\ sim_pc' = "unlock"
    /\ UNCHANGED <<width, height, rows_in_chunk, scratch, chunk_rows_done, writes,
                   read_holders, write_holders, frames, consumer_pc, pixel, view,
                   loaded, gen0, increments, reported>>

\* l.swap_state(&mut scratch): std::mem::swap of the two cell vectors
SimSwap ==
    /\ sim_pc = "swap"
    /\ ~process_exited
    /\ cells' = scratch
    /\ scratch' = cells
    /\ generation' = generation + 1
    /\ sim_pc' = "unlock"
    /\ UNCHANGED <<width, height, rows_in_chunk, chunk_rows_done, writes,
                   read_holders, write_holders, frames, consumer_pc, pixel, view,
                   loaded, gen0, increments, reported>>

\* mutant: the write guard outlives the block
SimReleaseWrite_keeps_guard ==
    /\ sim_pc = "unlock"
    /\ ~process_exited
    /\ sim_pc' = "fetch_add"
    /\ UNCHANGED <<width, height, rows_in_chunk, cells, scratch, chunk_rows_done,
                   writes, read_holders, write_holders, frames, consumer_pc, pixel,
                   view, loaded, gen0, generation, increments, reported>>

\* the write guard l is dropped
SimReleaseWrite ==
    /\ sim_pc = "unlock"
    /\ ~process_exited
    /\ write_holders' = write_holders \ {"sim"}
    /\ sim_pc' = "fetch_add"
    /\ UNCHANGED <<width, height, rows_in_chunk, cells, scratch, chunk_rows_done,
                   writes, read_holders, frames, consumer_pc, pixel, view, loaded,
                   gen0, generation, increments, reported>>

\* c_frames.fetch_add(1, Ordering::Relaxed)
SimFetchAdd ==
    /\ sim_pc = "fetch_add"
    /\ ~process_exited
    /\ frames' = fetch_add_1(frames)
    /\ increments' = increments + 1
    /\ sim_pc' = "read"
    /\ UNCHANGED <<width, height, rows_in_chunk, cells, scratch, chunk_rows_done,
                   writes, read_holders, write_holders, consumer_pc, pixel, view,
                   loaded, gen0, generation, reported>>

(***************************************************************************)
(* The event loop's handler of Event::RedrawRequested                      *)
(***************************************************************************)
\* draw: the linear_id of the cell shown at screen pixel i (the f64
\* quotients and floors are exact divisions here)
pixel_cell(i) ==
    LET x_id == ((i % WIDTH) * width) \div WIDTH
        y_id == ((i \div WIDTH) * height) \div HEIGHT
    IN  y_id * width + x_id

\* life.read()
ConsumerRead ==
    /\ consumer_pc = "idle"
    /\ read_lock_free
    /\ read_holders' = read_holders \cup {"consumer"}
    /\ consumer_pc' = "draw"
    /\ pixel' = 0
    /\ view' = <<>>
    /\ UNCHANGED <<width, height, rows_in_chunk, cells, scratch, sim_pc,
                   chunk_rows_done, writes, write_holders, frames, loaded, gen0,
                   generation, increments, reported>>

\* one pass of draw's loop over the screen: match state.cells[linear_id]
DrawPixel ==
    /\ consumer_pc = "draw"
    /\ pixel < WIDTH * HEIGHT
    /\ IF CellAt(cells, pixel_cell(pixel)) = "Panic"
       THEN /\ consumer_pc' = "exit"
            /\ read_holders' = read_holders \ {"consumer"}
            /\ UNCHANGED <<pixel, view>>
       ELSE /\ view' = Append(view, CellAt(cells, pixel_cell(pixel)))
            /\ pixel' = pixel + 1
            /\ UNCHANGED <<consumer_pc, read_holders>>
    /\ UNCHANGED <<width, height, rows_in_chunk, cells, scratch, sim_pc,
                   chunk_rows_done, writes, write_holders, frames, loaded, gen0,
                   generation, increments, reported>>

\* mutant: the read guard is kept after draw
ConsumerReleaseRead_keeps_guard ==
    /\ consumer_pc = "draw"
    /\ pixel = WIDTH * HEIGHT
    /\ consumer_pc' = "timer"
    /\ pixel' = 0
    /\ view' = <<>>
    /\ UNCHANGED <<width, height, rows_in_chunk, cells, scratch, sim_pc,
                   chunk_rows_done, writes, read_holders, write_holders, frames,
                   loaded, gen0, generation, increments, reported>>

\* draw returns and the read guard goes out of scope
ConsumerReleaseRead ==
    /\ consumer_pc = "draw"
    /\ pixel = WIDTH * HEIGHT
    /\ read_holders' = read_holders \ {"consumer"}
    /\ consumer_pc' = "timer"
    /\ pixel' = 0
    /\ view' = <<>>
    /\ UNCHANGED <<width, height, rows_in_chunk, cells, scratch, sim_pc,
                   chunk_rows_done, writes, write_holders, frames, loaded, gen0,
                   generation, increments, reported>>

\* duration >= 1_000_000.0 or not: the clock is outside the model
ConsumerTimer ==
    /\ consumer_pc = "timer"
    /\ consumer_pc' \in {"load", "render"}
    /\ UNCHANGED <<width, height, rows_in_chunk, cells, scratch, sim_pc,
                   chunk_rows_done, writes, read_holders, write_holders, frames,
                   pixel, view, loaded, gen0, generation, increments, reported>>

\* frames.load(Ordering::Relaxed), printed as the FPS
ConsumerLoad ==
    /\ consumer_pc = "load"
    /\ loaded' = frames
    /\ reported' = reported + frames
    /\ consumer_pc' = "store"
    /\ UNCHANGED <<width, height, rows_in_chunk, cells, scratch, sim_pc,
                   chunk_rows_done, writes, read_holders, write_holders, frames,
                   pixel, view, gen0, generation, increments>>

\* frames.store(0, Ordering::SeqCst)
ConsumerStore ==
    /\ consumer_pc = "store"
    /\ frames' = 0
    /\ consumer_pc' = "render"
    /\ UNCHANGED <<width, height, rows_in_chunk, cells, scratch, sim_pc,
                   chunk_rows_done, writes, read_holders, write_holders, pixel,
                   view, loaded, gen0, generation, increments, reported>>

\* pixels.render(): Ok ends the handler, Err sets ControlFlow::Exit and returns
ConsumerRender ==
    /\ consumer_pc = "render"
    /\ consumer_pc' \in {"idle", "exit"}
    /\ UNCHANGED <<width, height, rows_in_chunk, cells, scratch, sim_pc,
                   chunk_rows_done, writes, read_holders, write_holders, frames,
                   pixel, view, loaded, gen0, generation, increments, reported>>

(***************************************************************************)
(* Grids the specifications start from                                     *)
(***************************************************************************)
\* the grid whose Alive cells are those at the (x, y) of alive
Grid(w, h, alive) ==
    [id \in 1..(w * h) |->
        IF <<(id - 1) % w, (id - 1) \div w>> \in alive THEN "Alive" ELSE "Dead"]

Near(a, b) == a - b \in {-1, 0, 1}

AllPositions(w, h) == (0..(w - 1)) \X (0..(h - 1))

AllDead(w, h) == Grid(w, h, {})
AllAlive(w, h) == Grid(w, h, AllPositions(w, h))
Checkerboard(w, h) ==
    Grid(w, h, {p \in AllPositions(w, h) : (p[1] + p[2]) % 2 = 0})

\* three cells in a line through the centre of the grid
HorizontalLine(w, h) ==
    Grid(w, h, {p \in AllPositions(w, h) : p[2] = h \div 2 /\ Near(p[1], w \div 2)})

VerticalLine(w, h) ==
    Grid(w, h, {p \in AllPositions(w, h) : p[1] = w \div 2 /\ Near(p[2], h \div 2)})

SampleGrids(w, h) ==
    {AllDead(w, h), AllAlive(w, h), Checkerboard(w, h), HorizontalLine(w, h)}

\* dimensions whose grids are all tried, and dimensions tried on samples
ExhaustiveDims ==
    { <<0, 2>>, <<2, 0>>, <<1, 1>>, <<1, 2>>, <<2, 1>>, <<2, 2>>, <<1, 3>>,
      <<3, 1>>, <<3, 3>> }
SampledDims == { <<5, 5>>, <<3, 4>>, <<4, 5>> }

StepGrids(w, h) ==
    IF <<w, h>> \in ExhaustiveDims THEN ConwayState_new(w, h) ELSE SampleGrids(w, h)

\* rows_in_chunk of 1, of 2 (the code's), of 3 and of the whole height
ChunkSizes(h) == {1, ROWS_IN_CHUNK, 3} \cup (IF h > 0 THEN {h} ELSE {})

InitCommon ==
    /\ scratch \in {AllDead(width, height), AllAlive(width, height)}
    /\ sim_pc = "read"
    /\ chunk_rows_done = <<>>
    /\ writes = [id \in 1..Len(scratch) |-> 0]
    /\ read_holders = {}
    /\ write_holders = {}
    /\ frames = 0
    /\ consumer_pc = "idle"
    /\ pixel = 0
    /\ view = <<>>
    /\ loaded = 0
    /\ gen0 = cells
    /\ generation = 0
    /\ increments = 0
    /\ reported = 0

\* a life and a scratch of any of the dimensions, stepped by the loop alone
InitStep ==
    /\ \E d \in ExhaustiveDims \cup SampledDims :
          /\ width = d[1]
          /\ height = d[2]
    /\ rows_in_chunk \in ChunkSizes(height)
    /\ cells \in StepGrids(width, height)
    /\ InitCommon

SimNext(limit) ==
    \/ generation < limit /\ SimRead
    \/ NextStateBegin
    \/ \E chunk \in 0..(Len(chunk_rows_done) - 1) : ChunkRow(chunk)
    \/ SimReleaseRead
    \/ SimWrite
    \/ SimSwap
    \/ SimReleaseWrite
    \/ SimFetchAdd

NextStep == SimNext(MaxGenerations)

SpecStep == InitStep /\ [][NextStep]_vars

\* main: life of GAME_WIDTH x GAME_HEIGHT, the thread spawned with its scratch
Init ==
    /\ width = GAME_WIDTH
    /\ height = GAME_HEIGHT
    /\ rows_in_chunk = ROWS_IN_CHUNK
    /\ cells \in SampleGrids(width, height)
    /\ InitCommon

ConsumerNext ==
    \/ ConsumerRead
    \/ DrawPixel
    \/ ConsumerReleaseRead
    \/ ConsumerTimer
    \/ ConsumerLoad
    \/ ConsumerStore
    \/ ConsumerRender

Next == SimNext(MaxFrames) \/ ConsumerNext

Spec == Init /\ [][Next]_vars

(***************************************************************************)
(* Scheduling.  Both threads keep running: a step of the simulation thread *)
(* that stays possible is taken, draw runs to its end and drops its guard. *)
(* write() is granted to a thread that finds the lock free again and       *)
(* again (lock acquisition eventually succeeds); the event loop may idle   *)
(* or exit at any time.                                                    *)
(***************************************************************************)
Fairness ==
    /\ WF_vars(generation < MaxFrames /\ SimRead)
    /\ WF_vars(NextStateBegin)
    /\ WF_vars(\E chunk \in 0..(Len(chunk_rows_done) - 1) : ChunkRow(chunk))
    /\ WF_vars(SimReleaseRead)
    /\ SF_vars(SimWrite)
    /\ WF_vars(SimSwap)
    /\ WF_vars(SimReleaseWrite)
    /\ WF_vars(SimFetchAdd)
    /\ WF_vars(DrawPixel)
    /\ WF_vars(ConsumerReleaseRead)

FairSpec == Init /\ [][Next]_vars /\ Fairness

(***************************************************************************)
(* Reference definitions the properties are stated with                    *)
(***************************************************************************)
\* the grid a single sequential pass over all cells of g produces
RECURSIVE PassFrom(_, _, _, _)
PassFrom(g, w, h, id) ==
    IF id >= w * h THEN <<>>
    ELSE <<next_cell_state(g, w, h, id % w, id \div w)>> \o PassFrom(g, w, h, id + 1)

SequentialPass(g, w, h) == PassFrom(g, w, h, 0)

\* generation n of the grid life was constructed with
RECURSIVE Gen(_)
Gen(n) == IF n = 0 THEN gen0 ELSE SequentialPass(Gen(n - 1), width, height)

\* the in-grid positions of the Moore neighbourhood of (x, y), as (row, column)
Moore(w, h, x, y) ==
    { p \in (0..(h - 1)) \X (0..(w - 1)) :
        p # <<y, x>> /\ Near(p[1], y) /\ Near(p[2], x) }

LiveAround(g, w, h, x, y) ==
    Cardinality({p \in Moore(w, h, x, y) : g[p[1] * w + p[2] + 1] = "Alive"})

Positions == (0..(width - 1)) \X (0..(height - 1))

\* what draw shows of grid g at the pixels drawn so far
Shown(g) == [k \in 1..Len(view) |-> g[pixel_cell(k - 1) + 1]]

(***************************************************************************)
(* C1  No tearing: the cells the event loop reads during one hold of the   *)
(* read guard are those of one single generation G_n of the grid, never a  *)
(* mix of two generations nor the scratch buffer's initial contents.       *)
(***************************************************************************)
C1_NoTearing ==
    consumer_pc = "draw" =>
        \E n \in 0..generation : view = Shown(Gen(n))

\* a whole frame of generation 1, which differs from generation 0 and from
\* both initial scratch buffers, drawn while the thread waits for write()
C1_Witness ==
    /\ consumer_pc = "draw"
    /\ pixel = WIDTH * HEIGHT
    /\ generation = 1
    /\ sim_pc = "write"
    /\ view = Shown(Gen(1))
    /\ view # Shown(Gen(0))
    /\ view # Shown(AllDead(width, height))
    /\ view # Shown(AllAlive(width, height))

(***************************************************************************)
(* C2  Step correctness: for width, height >= 1, once next_state has       *)
(* completed every scratch cell (x, y) holds next_cell_state(x, y) of the  *)
(* current grid (as does every cell written so far while it runs),         *)
(* whatever scratch held; the step leaves current.cells unchanged.         *)
(***************************************************************************)
C2_Written ==
    (width >= 1 /\ height >= 1 /\ sim_pc \in {"chunks", "write"}) =>
        \A p \in Positions :
            LET id == p[2] * width + p[1] + 1
            IN  (sim_pc = "write" \/ writes[id] > 0) =>
                    scratch[id] = next_cell_state(cells, width, height, p[1], p[2])

C2_StepCorrect ==
    /\ []C2_Written
    /\ [][(sim_pc \in {"next_state", "chunks"}) => (cells' = cells)]_vars

\* a finished step over a 3 x 3 grid whose scratch began all Alive and whose
\* successor is neither the grid itself nor all Dead nor all Alive
C2_Witness ==
    /\ width = 3 /\ height = 3
    /\ sim_pc = "write"
    /\ generation = 0
    /\ scratch = SequentialPass(cells, width, height)
    /\ scratch \notin {cells, AllDead(width, height), AllAlive(width, height)}

(***************************************************************************)
(* C3  Determinism of the parallel decomposition: with rows_in_chunk 1, 2  *)
(* or height, and in every order of the chunk closures, next_state ends    *)
(* normally with scratch equal to one sequential pass over current, and    *)
(* after swap_state current is the next generation of the reference        *)
(* sequence G_0, G_1, ...                                                  *)
(***************************************************************************)
C3_Determinism ==
    /\ width >= 1 => sim_pc # "panicked"
    /\ sim_pc = "write" => scratch = SequentialPass(cells, width, height)
    /\ cells = Gen(generation)

\* three one-row chunks, the last closure finished first
C3_Witness ==
    /\ rows_in_chunk = 1
    /\ width = 3 /\ height = 3
    /\ sim_pc = "chunks"
    /\ chunk_rows_done = <<0, 0, 1>>
    /\ generation = 1
    /\ cells # gen0

(***************************************************************************)
(* C4  No-overlap/no-gap partition: for width, height, rows_in_chunk >= 1  *)
(* the rows of the chunk closures cover [0, height) exactly once: no       *)
(* scratch cell is written twice, none is skipped, and no closure indexes  *)
(* outside its slice (which would panic).                                  *)
(***************************************************************************)
\* the grid rows closure number chunk writes
ChunkRowSet(chunk) ==
    { chunk_first_row(chunk) + j : j \in 0..(chunk_rows(chunk) - 1) }

C4_Partition ==
    (width >= 1 /\ height >= 1) =>
        /\ sim_pc # "panicked"
        /\ sim_pc = "chunks" =>
              /\ \A id \in 1..Len(scratch) : writes[id] <= 1
              /\ \A row \in 0..(height - 1) :
                    Cardinality({c \in 0..(num_slices - 1) : row \in ChunkRowSet(c)}) = 1
              /\ \A c \in 0..(num_slices - 1) : ChunkRowSet(c) \subseteq 0..(height - 1)
        /\ sim_pc = "write" => \A id \in 1..Len(scratch) : writes[id] = 1

\* an odd height: two rows by closure 0 and the last row by closure 1
C4_Witness ==
    /\ rows_in_chunk = 2
    /\ height = 3
    /\ sim_pc = "write"
    /\ \A id \in 1..Len(scratch) : writes[id] = 1

(***************************************************************************)
(* C5  Closed-boundary neighbour count: count_alive_neighbors(x, y) is the *)
(* number of Alive cells among the Moore positions inside the grid, lies   *)
(* in 0..8, indexes no position outside the grid, is at most 3 in a        *)
(* corner, and does not wrap: from column 0 it never indexes column        *)
(* width-1 nor the reverse, and likewise for rows.  With MinDim = 3 the    *)
(* last part is stated for the grids at least 3 wide (3 high) only.        *)
(***************************************************************************)
NeighborCountClaims(MinDim) ==
    \A p \in Positions :
        LET x == p[1]
            y == p[2]
            n == count_alive_neighbors(cells, width, height, x, y)
            reads == neighbor_reads(width, height, x, y)
        IN  /\ n = LiveAround(cells, width, height, x, y)
            /\ n \in 0..8
            /\ reads \subseteq (0..(height - 1)) \X (0..(width - 1))
            /\ reads = Moore(width, height, x, y)
            /\ (x \in {0, width - 1} /\ y \in {0, height - 1}) => n <= 3
            /\ width >= MinDim =>
                  /\ x = 0 => \A r \in reads : r[2] # width - 1
                  /\ x = width - 1 => \A r \in reads : r[2] # 0
            /\ height >= MinDim =>
                  /\ y = 0 => \A r \in reads : r[1] # height - 1
                  /\ y = height - 1 => \A r \in reads : r[1] # 0

\* the claim as amended: the wraparound clause for width >= 3, height >= 3
C5_ClosedBoundary == NeighborCountClaims(3)

\* the claim as stated: the wraparound clause for every width and height
C5_AsStated == NeighborCountClaims(0)

\* a finished step over the all Alive 3 x 3 grid: 3 in a corner, 5 on an
\* edge, 8 in the centre
C5_Witness ==
    /\ width = 3 /\ height = 3
    /\ cells = AllAlive(3, 3)
    /\ sim_pc = "write"
    /\ count_alive_neighbors(cells, width, height, 0, 0) = 3
    /\ count_alive_neighbors(cells, width, height, 2, 1) = 5
    /\ count_alive_neighbors(cells, width, height, 1, 1) = 8
    /\ neighbor_reads(width, height, 2, 2) = {<<1, 1>>, <<1, 2>>, <<2, 1>>}

(***************************************************************************)
(* C6  Rule table: in each of the 18 combinations of cell state and        *)
(* live-neighbour count 0..8 the result is Alive exactly when (Dead and    *)
(* count = 3) or (Alive and count 2 or 3), and Dead otherwise; so is       *)
(* next_cell_state at every cell of every grid.                            *)
(***************************************************************************)
TableAlive(cell_state, live_count) ==
    \/ cell_state = "Dead" /\ live_count = 3
    \/ cell_state = "Alive" /\ live_count \in {2, 3}

C6_RuleTable ==
    /\ \A cs \in CellState, n \in 0..8 :
          /\ rule(cs, n) \in CellState
          /\ rule(cs, n) = "Alive" <=> TableAlive(cs, n)
    /\ \A p \in Positions :
          LET ns == next_cell_state(cells, width, height, p[1], p[2])
              cs == cells[p[2] * width + p[1] + 1]
              n == LiveAround(cells, width, height, p[1], p[2])
          IN  /\ ns \in CellState
              /\ ns = "Alive" <=> TableAlive(cs, n)

\* a finished step over the grid  . A . / A A . / . . A  in which an Alive
\* cell with 2 neighbours and one with 3 live, a Dead corner with 3 is born,
\* an Alive corner with 1 dies and a Dead corner with 2 stays Dead
C6_Witness ==
    /\ width = 3 /\ height = 3
    /\ sim_pc = "write"
    /\ cells = <<"Dead", "Alive", "Dead", "Alive", "Alive", "Dead", "Dead", "Dead", "Alive">>
    /\ scratch = <<"Alive", "Alive", "Dead", "Alive", "Alive", "Alive", "Dead", "Alive", "Dead">>
    /\ count_alive_neighbors(cells, width, height, 1, 0) = 2
    /\ count_alive_neighbors(cells, width, height, 1, 1) = 3
    /\ count_alive_neighbors(cells, width, height, 2, 2) = 1

(***************************************************************************)
(* C7  Blinker: from the 5 x 5 grid with three Alive cells in a horizontal *)
(* line through the centre, every next_state + swap_state turns the line   *)
(* to vertical or back; after an even number of steps (4 among them)       *)
(* current is the initial grid.                                            *)
(***************************************************************************)
C7_Blinker ==
    (width = 5 /\ height = 5 /\ gen0 = HorizontalLine(5, 5)) =>
        cells = IF generation % 2 = 0 THEN HorizontalLine(5, 5)
                ELSE VerticalLine(5, 5)

C7_Witness ==
    /\ width = 5 /\ height = 5
    /\ gen0 = HorizontalLine(5, 5)
    /\ generation = 4
    /\ cells = gen0
    /\ scratch = VerticalLine(5, 5)
    /\ Cardinality({id \in 1..25 : cells[id] = "Alive"}) = 3

(***************************************************************************)
(* C8  Empty grid: if life is constructed all Dead (width, height >= 1)    *)
(* then current is all Dead after any number of steps, whatever scratch    *)
(* held.                                                                   *)
(***************************************************************************)
C8_EmptyFixedPoint ==
    (width >= 1 /\ height >= 1 /\ gen0 = AllDead(width, height)) =>
        cells = AllDead(width, height)

\* the first step over an empty grid is overwriting a scratch that began
\* all Alive
C8_Witness ==
    /\ width = 3 /\ height = 4
    /\ gen0 = AllDead(width, height)
    /\ generation = 0
    /\ sim_pc = "chunks"
    /\ chunk_rows_done = <<0, 2>>
    /\ \E id \in 1..Len(scratch) : scratch[id] = "Alive"
    /\ \E id \in 1..Len(scratch) : scratch[id] = "Dead"

(***************************************************************************)
(* C9  Frame counter.  As stated: the counter never decreases, advances    *)
(* by one and only on a completed step, and no loaded value is smaller     *)
(* than an earlier one.  As amended: the counter advances by one, once per *)
(* completed step and never without one; the only other change is the      *)
(* event loop's store(0).                                                  *)
(***************************************************************************)
\* the fetch_add of a completed step: swap_state done, not yet counted
CountsOneStep ==
    /\ sim_pc = "fetch_add"
    /\ generation = increments + 1
    /\ increments' = generation
    /\ frames' = frames + 1

C9_AsStated ==
    [][/\ frames' >= frames
       /\ loaded' >= loaded
       /\ frames' # frames => CountsOneStep]_vars

C9_StepsCounted ==
    increments = generation - (IF sim_pc \in {"unlock", "fetch_add"} THEN 1 ELSE 0)

C9_CounterPerStep ==
    /\ []C9_StepsCounted
    /\ [][\/ frames' = frames
          \/ CountsOneStep
          \/ consumer_pc = "store" /\ frames' = 0]_vars

\* two steps counted, the first one reported and the counter reset since
C9_Witness ==
    /\ increments = 2
    /\ generation = 2
    /\ loaded = 1
    /\ frames = 1
    /\ consumer_pc = "render"

(***************************************************************************)
(* C10  Construction validation: ConwayState::new rejects a width or a     *)
(* height of 0, so that no grid has an empty cell array and no zero        *)
(* dimension surfaces as a failure inside next_state.                      *)
(***************************************************************************)
C10_ConstructionValidated ==
    /\ width > 0
    /\ height > 0
    /\ Len(cells) > 0
    /\ sim_pc # "panicked"

(***************************************************************************)
(* C11  Scoped read view: the event loop holds a read guard only while it  *)
(* draws; the guard is gone before the FPS report, before pixels.render()  *)
(* and its early return, and between two handler invocations.              *)
(***************************************************************************)
C11_ScopedReadView ==
    "consumer" \in read_holders => consumer_pc = "draw"

\* the early return after a failed render, a frame drawn, the thread
\* meanwhile holding the write guard
C11_Witness ==
    /\ consumer_pc = "exit"
    /\ "consumer" \notin read_holders
    /\ write_holders = {"sim"}
    /\ generation >= 1

(***************************************************************************)
(* C12  Blocking of the simulation thread.  As stated: the thread never    *)
(* waits at read() or write() while the event loop holds the read guard.   *)
(* As amended: read() before next_state never waits; write() before        *)
(* swap_state waits exactly while the event loop's draw holds its read     *)
(* guard, and for nothing else.                                            *)
(***************************************************************************)
\* the thread is at a lock call that cannot return in this state
SimWaits ==
    \/ sim_pc = "read" /\ write_holders # {}
    \/ sim_pc = "write" /\ (read_holders # {} \/ write_holders # {})

C12_AsStated == ~(SimWaits /\ "consumer" \in read_holders)

C12_WaitsOnlyAtWrite ==
    /\ sim_pc = "read" => ~SimWaits
    /\ (sim_pc = "write" /\ SimWaits) =>
          /\ write_holders = {}
          /\ read_holders = {"consumer"}
          /\ consumer_pc = "draw"

\* the first step is computed and write() waits for a draw in progress
C12_Witness ==
    /\ sim_pc = "write"
    /\ SimWaits
    /\ generation = 0
    /\ consumer_pc = "draw"
    /\ pixel = 1

(***************************************************************************)
(* C13  Lock discipline.  At most one thread holds the write lock, and     *)
(* none while a read lock is held; the simulation thread holds the write   *)
(* lock exactly for swap_state and the read lock exactly during            *)
(* next_state; current.cells changes only in swap_state under the write    *)
(* lock, and scratch changes only in steps of the simulation thread.       *)
(***************************************************************************)
C13_Held ==
    /\ Cardinality(write_holders) <= 1
    /\ write_holders # {} => read_holders = {}
    /\ write_holders \subseteq {"sim"}
    /\ "sim" \in write_holders <=> sim_pc \in {"swap", "unlock"}
    /\ "sim" \in read_holders <=> sim_pc \in {"next_state", "chunks"}

C13_Access ==
    /\ cells' # cells =>
          /\ sim_pc = "swap"
          /\ sim_pc' = "unlock"
          /\ write_holders = {"sim"}
          /\ read_holders = {}
    /\ scratch' # scratch =>
          /\ sim_pc \in {"chunks", "swap"}
          /\ "sim" \in (read_holders \cup write_holders)
          /\ consumer_pc' = consumer_pc
          /\ view' = view

C13_LockDiscipline == []C13_Held /\ [][C13_Access]_vars

\* swap_state has run under the write lock while a redraw waits to read
C13_Witness ==
    /\ sim_pc = "unlock"
    /\ write_holders = {"sim"}
    /\ read_holders = {}
    /\ consumer_pc = "idle"
    /\ generation = 2
    /\ cells # scratch

(***************************************************************************)
(* C14  Barrier before swap.  next_state returns, the read guard of the    *)
(* step is released and the write lock is requested only when every chunk  *)
(* closure of the step has written all rows of its slice; swap_state       *)
(* therefore finds every cell of scratch written exactly once.             *)
(***************************************************************************)
\* every chunk closure of the running step has processed all its rows
AllChunksDone ==
    /\ Len(chunk_rows_done) = num_slices
    /\ \A chunk \in 1..Len(chunk_rows_done) :
          chunk_rows_done[chunk] = chunk_rows(chunk - 1)

C14_NoWorkerRunning ==
    sim_pc \in {"write", "swap"} =>
        /\ chunk_rows_done = <<>>
        /\ \A id \in 1..(width * height) : writes[id] = 1

C14_JoinBeforeRelease ==
    ("sim" \in read_holders /\ "sim" \notin read_holders') =>
        /\ AllChunksDone
        /\ sim_pc' = "write"

C14_BarrierBeforeSwap == []C14_NoWorkerRunning /\ [][C14_JoinBeforeRelease]_vars

\* swap_state of the second step is about to run on a fully written scratch
C14_Witness ==
    /\ sim_pc = "swap"
    /\ generation = 1
    /\ write_holders = {"sim"}
    /\ \A id \in 1..(width * height) : writes[id] = 1
    /\ scratch # cells

(***************************************************************************)
(* C15  Steps are strictly sequential.  While next_state of a step reads   *)
(* current, no write guard is held, the swap_state and the counter         *)
(* increment of every earlier step have completed, and current is exactly  *)
(* the generation the preceding step computed; chunk closures exist only   *)
(* inside the next_state that started them.                                *)
(***************************************************************************)
C15_StepsSequential ==
    /\ sim_pc \in {"next_state", "chunks"} =>
          /\ write_holders = {}
          /\ "sim" \in read_holders
          /\ cells = Gen(generation)
          /\ increments = generation
    /\ sim_pc # "chunks" => chunk_rows_done = <<>>

\* the third step is reading the grid the second step computed
C15_Witness ==
    /\ sim_pc = "chunks"
    /\ generation = 2
    /\ cells = Gen(2)
    /\ cells # Gen(1)
    /\ \E chunk \in 1..Len(chunk_rows_done) : chunk_rows_done[chunk] > 0

(***************************************************************************)
(* C16  Grid shape invariant.  In every reachable state the cell vectors   *)
(* of current and of scratch both hold width*height cells, and no step,    *)
(* swap_state included, changes width or height.                           *)
(***************************************************************************)
C16_Shape ==
    /\ Len(cells) = width * height
    /\ Len(scratch) = width * height
    /\ DOMAIN writes = 1..(width * height)

C16_DimsKept ==
    /\ width' = width
    /\ height' = height

C16_GridShape == []C16_Shape /\ [][C16_DimsKept]_vars

\* swap_state has exchanged the vectors of two 3 by 4 grids twice
C16_Witness ==
    /\ width = 3
    /\ height = 4
    /\ generation = 2
    /\ sim_pc = "unlock"
    /\ Len(cells) = 12
    /\ Len(scratch) = 12
    /\ cells # scratch

(***************************************************************************)
(* C17  Generation pair invariant.  As stated: outside an in-progress      *)
(* step, from construction on, current holds a fully computed generation   *)
(* and scratch holds the generation before it.  As amended: outside an     *)
(* in-progress step current holds generation n of the constructed grid     *)
(* and, once a swap_state has run (n >= 1), scratch holds generation       *)
(* n - 1; swap_state exchanges the two cell vectors.                       *)
(***************************************************************************)
OutsideStep == sim_pc \in {"read", "unlock", "fetch_add"}

C17_AsStated ==
    OutsideStep =>
        /\ cells = Gen(generation)
        /\ IF generation = 0
           THEN SequentialPass(scratch, width, height) = cells
           ELSE scratch = Gen(generation - 1)

C17_Pair ==
    OutsideStep =>
        /\ cells = Gen(generation)
        /\ generation >= 1 => scratch = Gen(generation - 1)

C17_Exchange ==
    (sim_pc = "swap" /\ sim_pc' = "unlock") =>
        /\ cells' = scratch
        /\ scratch' = cells
        /\ generation' = generation + 1

C17_GenerationPair == []C17_Pair /\ [][C17_Exchange]_vars

\* after the second swap_state the pair is generation 2 and generation 1
C17_Witness ==
    /\ sim_pc = "fetch_add"
    /\ generation = 2
    /\ cells = Gen(2)
    /\ scratch = Gen(1)
    /\ cells # scratch
    /\ scratch # gen0

(***************************************************************************)
(* C18  No nested lock acquisition.  Whenever the simulation thread is at  *)
(* write() it holds no read guard, and the event loop never takes the      *)
(* write lock, so no thread requests the write lock while holding a read   *)
(* lock and the thread is never blocked at write() by its own read guard.  *)
(***************************************************************************)
C18_NoNestedAcquisition ==
    /\ sim_pc = "write" => "sim" \notin (read_holders \cup write_holders)
    /\ "consumer" \notin write_holders
    /\ ~(sim_pc = "write" /\ SimWaits /\ "sim" \in read_holders)

\* write() of the third step is requested with only the event loop reading
C18_Witness ==
    /\ sim_pc = "write"
    /\ generation = 2
    /\ read_holders = {"consumer"}
    /\ write_holders = {}

C20_FrameAccounting ==
    consumer_pc # "store" => reported + frames = increments

====
